---- MODULE Spec2Model ----
(***************************************************************************)
(* The Duck Game (src/src/main.rs): a Bevy application with one player,    *)
(* enemies, bullets, a score and a two-valued GameState.                   *)
(*                                                                         *)
(* The world is kept as ECS component tables (one table per component      *)
(* type, keyed by entity id). A frame is: BeginFrame (keyboard input,      *)
(* clock, the StateTransition schedule), the OnEnter(GameOver) systems     *)
(* when the state was just entered, the Update systems, EndFrame (the      *)
(* deferred commands are applied). The systems of Update are added as a    *)
(* tuple without .chain(), so the schedule holds no ordering edge between  *)
(* them: each runs once per frame, in an order the executor chooses.       *)
(* Commands (spawn, despawn) are deferred to the end of the schedule.      *)
(*                                                                         *)
(* A pending NextState is applied by the StateTransition schedule, which   *)
(* runs before Update in the next frame.                                   *)
(*                                                                         *)
(* f32 quantities are fixed-point numbers with FracBits fractional bits;   *)
(* every arithmetic operation rounds its exact result to that grid.        *)
(*                                                                         *)
(* The environment of a run is bounded: the direction keys are held from   *)
(* the first frame on, Space changes at most once between two frames, the  *)
(* frame time is steady, and fastrand draws come from EnemyDraws.          *)
(***************************************************************************)
EXTENDS Integers, Sequences, FiniteSets, TLC

\* ------------------------------------------------------------------ bounds
\* frames played, enemies and bullets spawned in a run; the frames of the
\* flight that precedes a run from the flown state
MaxFrames == 3
MaxEnemies == 2
MaxBullets == 1
FlyFrames == 7

\* -------------------------------------------------------- program constants
WINDOW_WIDTH == 800
WINDOW_HEIGHT == 600
PLAYER_SPEED == 50
BULLET_SPEED == 500
BULLET_OFFSET_X == 70
BULLET_OFFSET_Y == 14
BULLET_HIT_DISTANCE == 30
PLAYER_HIT_DISTANCE == 50

\* ------------------------------------------------------------- fixed point
FracBits == 2 + 2
Q == 2 ^ FracBits

\* n/d rounded to the nearest integer, halves away from zero (d > 0)
Round(n, d) ==
    IF n >= 0 THEN (2 * n + d) \div (2 * d) ELSE -((2 * (-n) + d) \div (2 * d))

Fx(units) == units * Q

\* a * b of two fixed-point numbers
FMul(a, b) == Round(a * b, Q)

\* the fixed-point value of num/den
FRatio(num, den) == Round(num * Q, den)

\* ------------------------------------------------------------------- types
Keys == {"KeyA", "KeyD", "KeyW", "KeyS", "Space"}

UpdateSystems ==
    {"handle_input", "update", "spawn_enemies", "spawn_bullets",
     "check_for_collisions", "check_for_player_collisions", "update_score_text"}

OnEnterGameOverSystems == {"darken_screen", "display_game_over_text"}

SkyColor == <<0, 722, 961>>
DarkColor == <<100, 100, 100>>

\* the direction keys a run holds from its first frame on
Holds == {{}, {"KeyD"}, {"KeyA", "KeyW"}, {"KeyS"}}

\* time.delta_secs() of a run, whose frame time is steady: 1/16 s in a run
\* from setup; the engine's largest virtual delta, 1/4 s, in a run from the
\* flown state
ShortFrame == FRatio(1, 16)
LongFrame == FRatio(1, 4)

\* the values fastrand::f32() is drawn from: (x draw, y draw, speed draw),
\* each a fraction <<num, den>> of [0, 1). The x draw of the last entry is
\* within half a grid step of 1 in r * 80, as the largest values of
\* fastrand::f32(), from 1 - 3 / 2^23 on, are within half an f32 step of
\* 800 in 720 + r * 80 (the sum is 800.0); its other draws are the least.
EnemyDraws ==
    { << <<0, 1>>, <<1, 2>>, <<1, 3>> >>,
      << <<257, 320>>, <<157, 300>>, <<14, 15>> >>,
      << <<4095, 4096>>, <<0, 1>>, <<0, 1>> >> }

PlayerEntity == 1
ScoreTextEntity == 2
GameOverTextEntity == 3
EnemyEntity(n) == 10 + n
BulletEntity(n) == 20 + n

VARIABLES
    state,        \* State<GameState>
    next,         \* NextState<GameState>: "Unchanged" or the pending state
    score,        \* Score
    clearColor,   \* ClearColor
    isPlayer,     \* entities with IsPlayer
    isEnemy,      \* entities with IsEnemy
    mesh2d,       \* entities with Mesh2d (the bullets)
    transform,    \* entity -> translation <<x, y>>
    velocity,     \* entity -> Velocity <<vx, vy>>
    text2d,       \* entity -> Text2d content
    spawnQ,       \* deferred spawn commands (bundles)
    despawnQ,     \* deferred despawn commands (entities)
    pressed,      \* ButtonInput<KeyCode>::pressed
    justPressed,  \* ButtonInput<KeyCode>::just_pressed
    dt,           \* Time::delta_secs of the frame
    timer,        \* elapsed time of on_timer's Timer
    phase,        \* "Frame" | "OnEnter" | "Update"
    todo,         \* systems of the current schedule still to run
    frame,        \* frames played so far
    enemiesSpawned,
    bulletsSpawned,
    hist          \* what the systems of this frame saw (history)

vars ==
    <<state, next, score, clearColor, isPlayer, isEnemy, mesh2d, transform,
      velocity, text2d, spawnQ, despawnQ, pressed, justPressed, dt, timer,
      phase, todo, frame, enemiesSpawned, bulletsSpawned, hist>>

worldVars == <<isPlayer, isEnemy, mesh2d, transform, velocity, text2d>>
inputVars == <<pressed, justPressed, dt, timer>>

\* ------------------------------------------------------------ pure helpers
\* Query::single(): Ok iff the query matches exactly one entity
Single(S) == Cardinality(S) = 1
TheOne(S) == CHOOSE e \in S : TRUE

DistanceAtMost(p, q, r) ==
    (p[1] - q[1]) * (p[1] - q[1]) + (p[2] - q[2]) * (p[2] - q[2]) <= Fx(r) * Fx(r)

\* Vec3::distance(a, b) < r for translations with z = 0. On the grid the
\* rounded square root is below r exactly when the squared distance is
\* below r * r.
DistanceLess(p, q, r) ==
    (p[1] - q[1]) * (p[1] - q[1]) + (p[2] - q[2]) * (p[2] - q[2]) < Fx(r) * Fx(r)

\* handle_input: the velocity of the player after the held keys are applied
Accelerate(v, keys) ==
    LET x1 == IF "KeyA" \in keys THEN v[1] - Fx(PLAYER_SPEED) ELSE v[1]
        x2 == IF "KeyD" \in keys THEN x1 + Fx(PLAYER_SPEED) ELSE x1
        y1 == IF "KeyW" \in keys THEN v[2] + Fx(PLAYER_SPEED) ELSE v[2]
        y2 == IF "KeyS" \in keys THEN y1 - Fx(PLAYER_SPEED) ELSE y1
    IN  <<x2, y2>>

\* update: translation += vel * delta_secs
Integrate(p, v, d) == <<p[1] + FMul(v[1], d), p[2] + FMul(v[2], d)>>

\* update: vel.0 *= 0.8
Damp(v) == <<Round(4 * v[1], 5), Round(4 * v[2], 5)>>

DampAlways(v, player) == Damp(v)

\* update: the velocity an entity is left with
VelocityAfterUpdate(v, player) == IF player THEN Damp(v) ELSE v

MovedDampedFirst(p, v, d, player) ==
    <<Integrate(p, VelocityAfterUpdate(v, player), d), VelocityAfterUpdate(v, player)>>

\* update, one entity: <<translation, velocity>> after the loop body
Moved(p, v, d, player) == <<Integrate(p, v, d), VelocityAfterUpdate(v, player)>>

\* spawn_enemies: the bundle built from the three fastrand::f32() draws
EnemyBundleFullWidth(id, r) ==
    LET w9 == Round(Fx(WINDOW_WIDTH) * 9, 10)
        x  == w9 + Round(r[1][1] * (Fx(WINDOW_WIDTH) - w9), r[1][2])
        y  == -(Fx(WINDOW_HEIGHT) \div 2) + Round(r[2][1] * Fx(WINDOW_HEIGHT), r[2][2])
        vx == -Fx(10) - Round(r[3][1] * Fx(30), r[3][2])
    IN  [id |-> id, tags |-> {"IsEnemy", "Velocity"}, pos |-> <<x, y>>,
         vel |-> <<vx, 0>>, text |-> <<>>]

EnemyBundle(id, r) ==
    LET w9 == Round(Fx(WINDOW_WIDTH) * 9, 10)
        x  == Round(w9 + Round(r[1][1] * (Fx(WINDOW_WIDTH) - w9), r[1][2]), 2)
        y  == -(Fx(WINDOW_HEIGHT) \div 2) + Round(r[2][1] * Fx(WINDOW_HEIGHT), r[2][2])
        vx == -Fx(10) - Round(r[3][1] * Fx(30), r[3][2])
    IN  [id |-> id, tags |-> {"IsEnemy", "Velocity"}, pos |-> <<x, y>>,
         vel |-> <<vx, 0>>, text |-> <<>>]

BulletBundleAsPlayer(id, p) ==
    [id |-> id, tags |-> {"Mesh2d", "Velocity", "IsPlayer"},
     pos |-> <<p[1] + Fx(BULLET_OFFSET_X), p[2] + Fx(BULLET_OFFSET_Y)>>,
     vel |-> <<Fx(BULLET_SPEED), 0>>, text |-> <<>>]

\* spawn_bullets: the bundle spawned for a player at translation p
BulletBundle(id, p) ==
    [id |-> id, tags |-> {"Mesh2d", "Velocity"},
     pos |-> <<p[1] + Fx(BULLET_OFFSET_X), p[2] + Fx(BULLET_OFFSET_Y)>>,
     vel |-> <<Fx(BULLET_SPEED), 0>>, text |-> <<>>]

\* display_game_over_text: the bundle it spawns
GameOverBundle(id) ==
    [id |-> id, tags |-> {"Text2d"}, pos |-> <<0, 0>>, vel |-> <<0, 0>>,
     text |-> <<"Game Over!">>]

FireHeld(jp, held) == "Space" \in held

\* spawn_bullets: keyboard_input.just_pressed(KeyCode::Space)
FirePressed(jp, held) == "Space" \in jp

\* check_for_collisions: the (bullet, enemy) pairs the nested loops act on
HitPairs(bullets, enemies, tr) ==
    {pr \in bullets \X enemies :
        DistanceLess(tr[pr[1]], tr[pr[2]], BULLET_HIT_DISTANCE)}

\* some bullet or some enemy is in more than one of the pairs
Shared(pairs) ==
    \E p1 \in pairs, p2 \in pairs : p1 # p2 /\ (p1[1] = p2[1] \/ p1[2] = p2[2])

ScoreAssigned(s, pairs) == Cardinality(pairs)
ScoreOncePerScan(s, pairs) == s + (IF pairs = {} THEN 0 ELSE 1)
ScorePerBullet(s, pairs) == s + Cardinality({pr[1] : pr \in pairs})

\* check_for_collisions: score.0 += 1 once per pair
ScoreAfter(s, pairs) == s + Cardinality(pairs)

TouchingBulletRange(players, enemies, tr) ==
    IF Single(players)
    THEN {e \in enemies : DistanceLess(tr[TheOne(players)], tr[e], BULLET_HIT_DISTANCE)}
    ELSE {}
TouchingNoDistance(players, enemies, tr) == IF Single(players) THEN enemies ELSE {}

\* check_for_player_collisions: the enemies that make it call game_state.set
Touching(players, enemies, tr) ==
    IF Single(players)
    THEN {e \in enemies : DistanceLess(tr[TheOne(players)], tr[e], PLAYER_HIT_DISTANCE)}
    ELSE {}

\* NextState after check_for_player_collisions
Requested(n, touching) == IF touching # {} THEN "GameOver" ELSE n

TransitionOrDefault(s, n) == IF n = "Unchanged" THEN "Playing" ELSE n

\* StateTransition: the pending NextState, if any, becomes the state
Transition(s, n) == IF n = "Unchanged" THEN s ELSE n

OnEnterEveryFrame(was, now) ==
    IF now = "GameOver" THEN OnEnterGameOverSystems ELSE {}

\* OnEnter(GameState::GameOver): the systems the StateTransition schedule
\* runs when the state goes from was to now
OnEnter(was, now) ==
    IF was # now /\ now = "GameOver" THEN OnEnterGameOverSystems ELSE {}

ScheduledUngated(s, fired) ==
    IF fired THEN UpdateSystems ELSE UpdateSystems \ {"spawn_enemies"}

\* .run_if(in_state(GameState::Playing)) and on_timer: the systems of Update
\* that run in a frame
Scheduled(s, fired) ==
    IF s = "Playing"
    THEN IF fired THEN UpdateSystems ELSE UpdateSystems \ {"spawn_enemies"}
    ELSE {}

\* on_timer(0.25 s): Timer::tick, repeating
TimerPeriod == FRatio(1, 4)
TimerFired(t, d) == t + d >= TimerPeriod
TimerAfter(t, d) == (t + d) % TimerPeriod

\* ButtonInput after the key events of a frame: each key of T changes state
PressedAfter(held, T) == (held \ T) \cup (T \ held)
JustPressedAfter(held, T) == T \ held

\* format!("{}", n) for a u32
RECURSIVE Decimal(_)
Decimal(n) ==
    LET digit == <<"0", "1", "2", "3", "4", "5", "6", "7", "8", "9">>[(n % 10) + 1]
    IN  IF n < 10 THEN <<digit>> ELSE Append(Decimal(n \div 10), digit)

ScoreText(n) == <<"Score: ">> \o Decimal(n)

\* the player's <<translation, velocity>> after n frames of 1/4 s with KeyD
\* held, handle_input running before update
RECURSIVE Fly(_)
Fly(n) ==
    IF n = 0 THEN << <<0, 0>>, <<0, 0>> >>
    ELSE LET before == Fly(n - 1)
         IN  Moved(before[1], Accelerate(before[2], {"KeyD"}), LongFrame, TRUE)

\* History of a frame: the state and the Space key as the frame found them,
\* the enemies the previous frame's player check found, whether on_timer's
\* timer fired, what this frame's systems saw when they ran, and whether
\* fastrand::u8(0..3) gave spawn_enemies zero. One field outlives the frame:
\* whether any scan so far found an entity in more than one pair.
NoHist ==
    [was |-> "Playing", spaceWas |-> FALSE, touched |-> {}, hits |-> {},
     touching |-> {}, shots |-> {}, scanned |-> FALSE, checked |-> FALSE,
     fired |-> FALSE, draw |-> "none", multi |-> FALSE]

\* -------------------------------------------------------------------- Init
\* The world after setup's commands are applied, with the player either
\* where setup put it or where FlyFrames frames of holding KeyD took it
\* before any enemy was drawn (KeyD still held, or released by now).
Init ==
    /\ state = "Playing"
    /\ next = "Unchanged"
    /\ score = 0
    /\ clearColor = SkyColor
    /\ isPlayer = {PlayerEntity}
    /\ isEnemy = {}
    /\ mesh2d = {}
    /\ \E n \in {0, FlyFrames} :
          /\ transform = (PlayerEntity :> Fly(n)[1])
                         @@ (ScoreTextEntity :> <<0, Fx(WINDOW_HEIGHT) \div 2 - Fx(30)>>)
          /\ velocity = (PlayerEntity :> Fly(n)[2])
          /\ pressed \in IF n = 0 THEN Holds ELSE {{"KeyD"}, {}}
          /\ dt = IF n = 0 THEN ShortFrame ELSE LongFrame
    /\ text2d = (ScoreTextEntity :> <<"Score: ", "0">>)
    /\ spawnQ = {}
    /\ despawnQ = {}
    /\ justPressed = {}
    /\ timer = 0
    /\ phase = "Frame"
    /\ todo = {}
    /\ frame = 0
    /\ enemiesSpawned = 0
    /\ bulletsSpawned = 0
    /\ hist = NoHist

\* ----------------------------------------------------------------- actions
\* Commands are applied: every queued bundle is inserted, every queued
\* despawn removes the entity with all its components.
ApplyDeferred ==
    LET ids   == {b.id : b \in spawnQ}
        alive == (DOMAIN transform \cup ids) \ despawnQ
        of(i) == CHOOSE b \in spawnQ : b.id = i
        with(tag) == {i \in ids : tag \in of(i).tags}
    IN  /\ transform' = [e \in alive |->
                            IF e \in ids THEN of(e).pos ELSE transform[e]]
        /\ velocity' = [e \in ((DOMAIN velocity \cup with("Velocity")) \ despawnQ) |->
                            IF e \in ids THEN of(e).vel ELSE velocity[e]]
        /\ text2d' = [e \in ((DOMAIN text2d \cup with("Text2d")) \ despawnQ) |->
                            IF e \in ids THEN of(e).text ELSE text2d[e]]
        /\ isPlayer' = (isPlayer \cup with("IsPlayer")) \ despawnQ
        /\ isEnemy' = (isEnemy \cup with("IsEnemy")) \ despawnQ
        /\ mesh2d' = (mesh2d \cup with("Mesh2d")) \ despawnQ
        /\ spawnQ' = {}
        /\ despawnQ' = {}

\* PreUpdate (keyboard), the clock, and the StateTransition schedule. The
\* frames played are bounded; the frames of GameOver are not. The executor
\* evaluates on_timer's condition, which ticks its timer, in every frame,
\* whether or not in_state lets the systems run.
BeginFrame ==
    /\ phase = "Frame"
    /\ frame < MaxFrames \/ next = "GameOver" \/ state = "GameOver"
    /\ \E T \in SUBSET {"Space"} :
          /\ "Space" \in JustPressedAfter(pressed, T) => bulletsSpawned < MaxBullets
          /\ pressed' = PressedAfter(pressed, T)
          /\ justPressed' = JustPressedAfter(pressed, T)
          /\ state' = Transition(state, next)
          /\ next' = "Unchanged"
          /\ IF OnEnter(state, state') # {}
             THEN /\ phase' = "OnEnter"
                  /\ todo' = OnEnter(state, state')
             ELSE /\ phase' = "Update"
                  /\ todo' = Scheduled(state', TimerFired(timer, dt))
          /\ timer' = TimerAfter(timer, dt)
    /\ hist' = [NoHist EXCEPT !.was = state, !.spaceWas = "Space" \in pressed,
                               !.touched = hist.touching,
                               !.fired = TimerFired(timer, dt),
                               !.multi = hist.multi]
    /\ UNCHANGED <<score, clearColor, worldVars, spawnQ, despawnQ, dt, frame,
                   enemiesSpawned, bulletsSpawned>>

Run(sys) == phase \in {"OnEnter", "Update"} /\ sys \in todo /\ todo' = todo \ {sys}

DarkenScreen ==
    /\ Run("darken_screen")
    /\ clearColor' = DarkColor
    /\ UNCHANGED <<state, next, score, worldVars, spawnQ, despawnQ, inputVars,
                   phase, frame, enemiesSpawned, bulletsSpawned, hist>>

DisplayGameOverText ==
    /\ Run("display_game_over_text")
    /\ spawnQ' = spawnQ \cup
          {GameOverBundle(GameOverTextEntity)}
    /\ UNCHANGED <<state, next, score, clearColor, worldVars, despawnQ, inputVars,
                   phase, frame, enemiesSpawned, bulletsSpawned, hist>>

\* the end of the StateTransition schedule; Update follows in the same frame
EndStateTransition ==
    /\ phase = "OnEnter"
    /\ todo = {}
    /\ ApplyDeferred
    /\ phase' = "Update"
    /\ todo' = Scheduled(state, hist.fired)
    /\ UNCHANGED <<state, next, score, clearColor, inputVars, frame,
                   enemiesSpawned, bulletsSpawned, hist>>

HandleInputEveryVelocity ==
    /\ Run("handle_input")
    /\ velocity' = [e \in DOMAIN velocity |-> Accelerate(velocity[e], pressed)]
    /\ UNCHANGED <<state, next, score, clearColor, isPlayer, isEnemy, mesh2d,
                   transform, text2d, spawnQ, despawnQ, inputVars, phase, frame,
                   enemiesSpawned, bulletsSpawned, hist>>

HandleInput ==
    /\ Run("handle_input")
    /\ LET q == isPlayer \cap DOMAIN velocity
       IN  IF Single(q)
           THEN velocity' = [velocity EXCEPT
                                ![TheOne(q)] = Accelerate(velocity[TheOne(q)], pressed)]
           ELSE velocity' = velocity
    /\ UNCHANGED <<state, next, score, clearColor, isPlayer, isEnemy, mesh2d,
                   transform, text2d, spawnQ, despawnQ, inputVars, phase, frame,
                   enemiesSpawned, bulletsSpawned, hist>>

Update ==
    /\ Run("update")
    /\ LET q == DOMAIN transform \cap DOMAIN velocity
           m(e) == Moved(transform[e], velocity[e], dt, e \in isPlayer)
       IN  /\ transform' = [e \in DOMAIN transform |->
                               IF e \in q THEN m(e)[1] ELSE transform[e]]
           /\ velocity' = [e \in DOMAIN velocity |->
                               IF e \in q THEN m(e)[2] ELSE velocity[e]]
    /\ UNCHANGED <<state, next, score, clearColor, isPlayer, isEnemy, mesh2d,
                   text2d, spawnQ, despawnQ, inputVars, phase, frame,
                   enemiesSpawned, bulletsSpawned, hist>>

SpawnEnemies ==
    /\ Run("spawn_enemies")
    /\ \E draw \in 0 .. 2 :
          /\ IF draw = 0
             THEN /\ enemiesSpawned < MaxEnemies
                  /\ \E r \in EnemyDraws :
                        spawnQ' = spawnQ \cup {EnemyBundle(EnemyEntity(enemiesSpawned), r)}
                  /\ enemiesSpawned' = enemiesSpawned + 1
             ELSE UNCHANGED <<spawnQ, enemiesSpawned>>
          /\ hist' = [hist EXCEPT !.draw = IF draw = 0 THEN "zero" ELSE "other"]
    /\ UNCHANGED <<state, next, score, clearColor, worldVars, despawnQ, inputVars,
                   phase, frame, bulletsSpawned>>

SpawnBullets ==
    /\ Run("spawn_bullets")
    /\ LET q == isPlayer \cap DOMAIN transform
       IN  IF FirePressed(justPressed, pressed) /\ Single(q)
           THEN LET b == BulletBundle(BulletEntity(bulletsSpawned), transform[TheOne(q)])
                IN  /\ spawnQ' = spawnQ \cup {b}
                    /\ bulletsSpawned' = bulletsSpawned + 1
                    /\ hist' = [hist EXCEPT !.shots = @ \cup {<<b, transform[TheOne(q)]>>}]
           ELSE UNCHANGED <<spawnQ, bulletsSpawned, hist>>
    /\ UNCHANGED <<state, next, score, clearColor, worldVars, despawnQ, inputVars,
                   phase, frame, enemiesSpawned>>

CheckForCollisionsDespawningAtOnce ==
    /\ Run("check_for_collisions")
    /\ LET pairs == HitPairs(mesh2d \cap DOMAIN transform,
                             isEnemy \cap DOMAIN transform, transform)
           gone  == {pr[1] : pr \in pairs} \cup {pr[2] : pr \in pairs}
       IN  /\ transform' = [e \in DOMAIN transform \ gone |-> transform[e]]
           /\ velocity' = [e \in DOMAIN velocity \ gone |-> velocity[e]]
           /\ isEnemy' = isEnemy \ gone
           /\ mesh2d' = mesh2d \ gone
           /\ score' = ScoreAfter(score, pairs)
           /\ hist' = [hist EXCEPT !.hits = pairs, !.scanned = TRUE,
                                   !.multi = @ \/ Shared(pairs)]
    /\ UNCHANGED <<state, next, clearColor, isPlayer, text2d, spawnQ, despawnQ,
                   inputVars, phase, frame, enemiesSpawned, bulletsSpawned>>

CheckForCollisions ==
    /\ Run("check_for_collisions")
    /\ LET pairs == HitPairs(mesh2d \cap DOMAIN transform,
                             isEnemy \cap DOMAIN transform, transform)
       IN  /\ despawnQ' = despawnQ \cup {pr[1] : pr \in pairs} \cup {pr[2] : pr \in pairs}
           /\ score' = ScoreAfter(score, pairs)
           /\ hist' = [hist EXCEPT !.hits = pairs, !.scanned = TRUE,
                                   !.multi = @ \/ Shared(pairs)]
    /\ UNCHANGED <<state, next, clearColor, worldVars, spawnQ, inputVars, phase,
                   frame, enemiesSpawned, bulletsSpawned>>

CheckForPlayerCollisionsDespawning ==
    /\ Run("check_for_player_collisions")
    /\ LET touching == Touching(isPlayer \cap DOMAIN transform,
                                isEnemy \cap DOMAIN transform, transform)
       IN  /\ next' = Requested(next, touching)
           /\ despawnQ' = despawnQ \cup touching
           /\ hist' = [hist EXCEPT !.touching = touching, !.checked = TRUE]
    /\ UNCHANGED <<state, score, clearColor, worldVars, spawnQ, inputVars,
                   phase, frame, enemiesSpawned, bulletsSpawned>>

CheckForPlayerCollisions ==
    /\ Run("check_for_player_collisions")
    /\ LET touching == Touching(isPlayer \cap DOMAIN transform,
                                isEnemy \cap DOMAIN transform, transform)
       IN  /\ next' = Requested(next, touching)
           /\ hist' = [hist EXCEPT !.touching = touching, !.checked = TRUE]
    /\ UNCHANGED <<state, score, clearColor, worldVars, spawnQ, despawnQ, inputVars,
                   phase, frame, enemiesSpawned, bulletsSpawned>>

UpdateScoreText ==
    /\ Run("update_score_text")
    /\ IF Single(DOMAIN text2d)
       THEN text2d' = [text2d EXCEPT ![TheOne(DOMAIN text2d)] = ScoreText(score)]
       ELSE text2d' = text2d
    /\ UNCHANGED <<state, next, score, clearColor, isPlayer, isEnemy, mesh2d,
                   transform, velocity, spawnQ, despawnQ, inputVars, phase, frame,
                   enemiesSpawned, bulletsSpawned, hist>>

\* the end of Update: the deferred commands of the frame's systems are applied
EndFrame ==
    /\ phase = "Update"
    /\ todo = {}
    /\ ApplyDeferred
    /\ phase' = "Frame"
    /\ frame' = IF state = "Playing" THEN frame + 1 ELSE frame
    /\ UNCHANGED <<state, next, score, clearColor, inputVars, todo,
                   enemiesSpawned, bulletsSpawned, hist>>

Next ==
    \/ BeginFrame
    \/ DarkenScreen
    \/ DisplayGameOverText
    \/ EndStateTransition
    \/ HandleInput
    \/ Update
    \/ SpawnEnemies
    \/ SpawnBullets
    \/ CheckForCollisions
    \/ CheckForPlayerCollisions
    \/ UpdateScoreText
    \/ EndFrame

Spec == Init /\ [][Next]_vars

\* The systems of Update as functions of a world they are handed: worlds
\* with no entity tagged IsPlayer (the queries for the player match
\* nothing), holding the score text and an enemy near the origin, without
\* or with a bullet flying towards it.
NoPlayerWorlds ==
    { [enemies |-> (EnemyEntity(0) :> << <<Fx(20), 0>>, <<-Fx(20), 0>> >>),
       bullets |-> << >>],
      [enemies |-> (EnemyEntity(0) :> << <<Fx(20), 0>>, <<-Fx(20), 0>> >>),
       bullets |-> (BulletEntity(0) :> << <<-Fx(100), 0>>, <<Fx(BULLET_SPEED), 0>> >>)] }

InitNoPlayer ==
    /\ state = "Playing"
    /\ next = "Unchanged"
    /\ score = 0
    /\ clearColor = SkyColor
    /\ isPlayer = {}
    /\ \E w \in NoPlayerWorlds :
          LET moving == w.enemies @@ w.bullets
          IN  /\ isEnemy = DOMAIN w.enemies
              /\ mesh2d = DOMAIN w.bullets
              /\ transform = [e \in DOMAIN moving |-> moving[e][1]]
                             @@ (ScoreTextEntity :> <<0, Fx(WINDOW_HEIGHT) \div 2 - Fx(30)>>)
              /\ velocity = [e \in DOMAIN moving |-> moving[e][2]]
              /\ enemiesSpawned = Cardinality(DOMAIN w.enemies)
              /\ bulletsSpawned = Cardinality(DOMAIN w.bullets)
    /\ text2d = (ScoreTextEntity :> <<"Score: ", "0">>)
    /\ spawnQ = {}
    /\ despawnQ = {}
    /\ pressed \in Holds \ {{}}
    /\ justPressed = {}
    /\ dt = LongFrame
    /\ timer = 0
    /\ phase = "Frame"
    /\ todo = {}
    /\ frame = 0
    /\ hist = NoHist

\* the frames of a world that stays in Playing
NextPlaying ==
    \/ BeginFrame
    \/ HandleInput
    \/ Update
    \/ SpawnEnemies
    \/ SpawnBullets
    \/ CheckForCollisions
    \/ CheckForPlayerCollisions
    \/ UpdateScoreText
    \/ EndFrame

SpecNoPlayer == InitNoPlayer /\ [][NextPlaying]_vars

TypeOK ==
    /\ state \in {"Playing", "GameOver"}
    /\ next \in {"Unchanged", "GameOver"}
    /\ score \in Nat
    /\ phase \in {"Frame", "OnEnter", "Update"}
    /\ todo \subseteq (UpdateSystems \cup OnEnterGameOverSystems)
    /\ DOMAIN velocity \subseteq DOMAIN transform
    /\ DOMAIN text2d \subseteq DOMAIN transform

\* -------------------------------------------------------------- properties
Players == isPlayer \cap DOMAIN transform
Enemies == isEnemy \cap DOMAIN transform
Bullets == mesh2d \cap DOMAIN transform
DirKeys == {"KeyA", "KeyD", "KeyW", "KeyS"}

\* the step is one run of the system sys
Ran(sys) == phase = "Update" /\ sys \in todo /\ sys \notin todo'

\* the squared distance of two translations, and "closer than r units"
SqDist(p, q) == (p[1] - q[1]) * (p[1] - q[1]) + (p[2] - q[2]) * (p[2] - q[2])
Closer(p, q, r) == SqDist(p, q) < (r * Q) * (r * Q)

\* r is the fixed-point number nearest to n/d
NearestTo(r, n, d) ==
    LET diff == d * r - n IN 2 * (IF diff >= 0 THEN diff ELSE -diff) <= d

\* C1: GameOver is terminal. Once GameState is GameOver it is GameOver after
\* every later step, and no step leaves a request for Playing pending.
GameOverIsTerminal ==
    [][/\ state = "GameOver" => state' = "GameOver"
       /\ next' \in {"Unchanged", "GameOver"}]_vars

\* a frame that began in GameOver and is still in GameOver
GameOverPersists ==
    state = "GameOver" /\ hist.was = "GameOver" /\ "Space" \in justPressed

\* C2: while GameState is Playing no step lowers Score.
ScoreNeverDrops == [][state = "Playing" => score' >= score]_vars

\* a scan that added to a Score already above 0 is behind us
ScoreRose == state = "Playing" /\ hist.scanned /\ score >= 1 /\ frame >= 2

\* C3: when check_for_player_collisions runs with the player present and an
\* enemy closer than 50, GameOver is requested; the request stays pending
\* to the end of the frame; the next frame starts in GameOver; and no system
\* of Update is scheduled once the state is GameOver. Two qualifying
\* enemies request the same transition.
TouchEndsGame ==
    [][/\ ( /\ Ran("check_for_player_collisions")
            /\ Single(Players)
            /\ \E e \in Enemies :
                  Closer(transform[TheOne(Players)], transform[e], 50) )
          => next' = "GameOver"
       /\ (next = "GameOver" /\ phase # "Frame") => next' = "GameOver"
       /\ (next = "GameOver" /\ phase = "Frame" /\ phase' # "Frame")
          => state' = "GameOver"
       /\ state' = "GameOver" => todo' \cap UpdateSystems = {}]_vars

\* the frame after two enemies touched the player in the same frame
TwoTouchesOneGameOver ==
    /\ state = "GameOver"
    /\ hist.was = "Playing"
    /\ Cardinality(hist.touched) = 2
    /\ phase = "Update"

\* C4: GameState leaves Playing only at a frame start with a request
\* pending, and a request becomes pending only in a run of
\* check_for_player_collisions that finds the player and an enemy closer
\* than 50 to it.
OnlyTouchEndsGame ==
    [][/\ (state = "Playing" /\ state' = "GameOver")
          => (next = "GameOver" /\ phase = "Frame")
       /\ (next # "GameOver" /\ next' = "GameOver")
          => /\ Ran("check_for_player_collisions")
             /\ Single(Players)
             /\ \E e \in Enemies :
                   Closer(transform[TheOne(Players)], transform[e], 50)]_vars

\* the game ended on one enemy touching the player while another did not
GameOverAfterTouch ==
    /\ state = "GameOver"
    /\ hist.was = "Playing"
    /\ Cardinality(hist.touched) = 1
    /\ isEnemy \ hist.touched # {}

\* C5: a run of check_for_collisions adds to Score the number of (bullet,
\* enemy) pairs closer than 30, over all bullets and all enemies present.
ScoreCountsPairs ==
    [][Ran("check_for_collisions")
       => score' = score + Cardinality({pr \in Bullets \X Enemies :
                              Closer(transform[pr[1]], transform[pr[2]], 30)})]_vars

\* one bullet was in range of two enemies in one scan
OneBulletTwoEnemies ==
    /\ hist.scanned
    /\ Cardinality(hist.hits) = 2
    /\ Cardinality({pr[1] : pr \in hist.hits}) = 1
    /\ score = 2

\* C6: a run of check_for_collisions treats a (bullet, enemy) pair as a
\* collision exactly when it is closer than 30: it queues the despawn of
\* both entities of such a pair and of no other entity, and counts one
\* point per such pair.
StrictHitBoundary ==
    [][Ran("check_for_collisions")
       => /\ \A b \in Bullets, e \in Enemies :
                IF SqDist(transform[b], transform[e]) < (30 * Q) * (30 * Q)
                THEN <<b, e>> \in hist'.hits /\ {b, e} \subseteq despawnQ'
                ELSE <<b, e>> \notin hist'.hits
          /\ \A x \in despawnQ' \ despawnQ :
                \E b \in Bullets, e \in Enemies :
                   /\ x \in {b, e}
                   /\ SqDist(transform[b], transform[e]) < (30 * Q) * (30 * Q)
          /\ score' - score = Cardinality(hist'.hits)]_vars

\* a scan has passed over a pair at distance exactly 30 and left it alone
PairAtThirtySurvives ==
    /\ hist.scanned
    /\ "update" \in todo
    /\ \E b \in Bullets, e \in Enemies :
          /\ SqDist(transform[b], transform[e]) = (30 * Q) * (30 * Q)
          /\ <<b, e>> \notin hist.hits
          /\ {b, e} \cap despawnQ = {}

\* C7: at most one entity is tagged IsPlayer.
AtMostOnePlayer == Cardinality(isPlayer) <= 1

\* the player among enemies and a bullet
OnePlayerAmongOthers ==
    /\ Cardinality(isPlayer) = 1
    /\ mesh2d # {}
    /\ Cardinality(isEnemy) = 2

\* C8: a bullet is spawned at the player's translation plus (70, 14) with
\* velocity (500, 0), enters the world there, and keeps that velocity.
BulletLaunch ==
    /\ \A s \in hist.shots :
          /\ s[1].pos = <<s[2][1] + 70 * Q, s[2][2] + 14 * Q>>
          /\ s[1].vel = <<500 * Q, 0>>
          /\ phase = "Frame" => /\ transform[s[1].id] = s[1].pos
                                /\ velocity[s[1].id] = s[1].vel
    /\ \A b \in mesh2d : velocity[b] = <<500 * Q, 0>>

\* a bullet fired away from the origin has been moved by update
BulletInFlight ==
    /\ phase = "Update"
    /\ "update" \notin todo
    /\ hist.shots = {}
    /\ transform[PlayerEntity][1] > 200 * Q
    /\ \E b \in mesh2d : transform[b][1] > 500 * Q

\* C9: at the end of the systems of a Playing frame with the player
\* present, one bullet is queued if Space went from released to pressed
\* in this frame and none otherwise.
FireOnPressEdge ==
    (phase = "Update" /\ todo = {} /\ state = "Playing" /\ Single(Players))
    => Cardinality({b \in spawnQ : "Mesh2d" \in b.tags})
          = IF "Space" \in pressed /\ ~hist.spaceWas THEN 1 ELSE 0

\* Space is still held in a later frame: one bullet in all
StillHeldNoBullet ==
    /\ phase = "Update"
    /\ todo = {}
    /\ state = "Playing"
    /\ "Space" \in pressed
    /\ hist.spaceWas
    /\ bulletsSpawned = 1
    /\ frame >= 2

\* C10: a run of update with no direction key held moves the player by
\* velocity * dt and leaves it with 0.8 times the velocity it had, each
\* rounded to the grid.
MotionIntegration ==
    [][(Ran("update") /\ Single(Players) /\ pressed \cap DirKeys = {})
       => LET p == TheOne(Players)
          IN  \A i \in 1 .. 2 :
                 /\ NearestTo(transform'[p][i] - transform[p][i],
                              velocity[p][i] * dt, Q)
                 /\ NearestTo(velocity'[p][i], 4 * velocity[p][i], 5)]_vars

\* update has just moved a coasting player
CoastingPlayerMoved ==
    /\ phase = "Update"
    /\ "update" \notin todo
    /\ state = "Playing"
    /\ pressed \cap DirKeys = {}
    /\ velocity[PlayerEntity][1] > 100 * Q

\* the step is one run of the OnEnter(GameOver) system sys
RanOnEnter(sys) == phase = "OnEnter" /\ sys \in todo /\ sys \notin todo'

\* the entities showing "Game Over!"
GameOverTexts(t) == {e \in DOMAIN t : t[e] = <<"Game Over!">>}

\* C11: darken_screen and display_game_over_text are scheduled, both, by
\* the step that takes GameState from Playing to GameOver and by no other;
\* each runs in the frame of that step, before its Update; a frame that
\* starts in GameOver schedules neither. At most one "Game Over!" text
\* exists; once the systems of the entry have run there is exactly one and
\* the clear color is (0.1, 0.1, 0.1); in Playing it is the sky color.
OneShotOnEnter ==
    [][/\ (state = "Playing" /\ state' = "GameOver")
          => (phase' = "OnEnter" /\ todo' = {"darken_screen", "display_game_over_text"})
       /\ (todo' \ todo) \cap {"darken_screen", "display_game_over_text"} # {}
          => (state = "Playing" /\ state' = "GameOver")
       /\ (RanOnEnter("darken_screen") \/ RanOnEnter("display_game_over_text"))
          => (state = "GameOver" /\ hist.was = "Playing")
       /\ (phase = "OnEnter" /\ phase' # "OnEnter") => todo = {}
       /\ RanOnEnter("darken_screen") => clearColor # <<100, 100, 100>>
       /\ RanOnEnter("display_game_over_text") => GameOverTexts(text2d) = {}
       /\ Cardinality(GameOverTexts(text2d')) <= 1
       /\ state' = "Playing"
          => (clearColor' = <<0, 722, 961>> /\ GameOverTexts(text2d') = {})
       /\ (state' = "GameOver" /\ phase' # "OnEnter")
          => (clearColor' = <<100, 100, 100>>
              /\ Cardinality(GameOverTexts(text2d')) = 1)]_vars

\* a second frame of GameOver has ended: dark, with its one text
LaterGameOverFrame ==
    /\ state = "GameOver"
    /\ hist.was = "GameOver"
    /\ phase = "Update"
    /\ clearColor = <<100, 100, 100>>
    /\ Cardinality(GameOverTexts(text2d)) = 1

\* C12: while GameState is GameOver no system of Update is scheduled, and no
\* step changes Score, the player, enemy and bullet sets, a velocity or the
\* translation of an entity, removes an entity, or queues a despawn or the
\* spawn of an enemy or a bullet.
GameOverFreezes ==
    [][/\ state' = "GameOver"
          => todo' \cap {"handle_input", "update", "spawn_enemies", "spawn_bullets",
                         "check_for_collisions", "check_for_player_collisions",
                         "update_score_text"} = {}
       /\ state = "GameOver"
          => /\ score' = score
             /\ isPlayer' = isPlayer /\ isEnemy' = isEnemy /\ mesh2d' = mesh2d
             /\ velocity' = velocity
             /\ \A e \in DOMAIN transform :
                   e \in DOMAIN transform' /\ transform'[e] = transform[e]
             /\ despawnQ' = {}
             /\ \A b \in spawnQ' : b.tags \cap {"IsEnemy", "Mesh2d", "Velocity"} = {}
             /\ enemiesSpawned' = enemiesSpawned
             /\ bulletsSpawned' = bulletsSpawned]_vars

\* a whole frame of GameOver has passed with the timer fired, KeyD held and
\* Space just pressed, over a moving player and an enemy
FrozenFrameWithInput ==
    /\ state = "GameOver"
    /\ hist.was = "GameOver"
    /\ phase = "Frame"
    /\ hist.fired
    /\ "KeyD" \in pressed
    /\ "Space" \in justPressed
    /\ isEnemy # {}
    /\ velocity[PlayerEntity][1] > 0

\* the place of each system in the order in which main adds them
OrderAdded ==
    [handle_input |-> 1, update |-> 2, spawn_enemies |-> 3, spawn_bullets |-> 4,
     check_for_collisions |-> 5, check_for_player_collisions |-> 6,
     update_score_text |-> 7]

\* C13: in a Playing frame the systems run in the order handle_input,
\* update, spawn_enemies (when its timer fired), spawn_bullets,
\* check_for_collisions, check_for_player_collisions, update_score_text:
\* a system runs only when every system before it in that order has run;
\* in particular update has run when either collision check runs.
FixedSystemOrder ==
    [][/\ \A sys \in DOMAIN OrderAdded :
             Ran(sys) => \A other \in todo : OrderAdded[other] >= OrderAdded[sys]
       /\ (Ran("check_for_collisions") \/ Ran("check_for_player_collisions"))
          => "update" \notin todo]_vars

\* C14: at the end of every frame in which the systems of Update ran, and
\* from then to the next frame and through GameOver, the score text reads
\* "Score: n" for the current Score n; while Playing there is exactly one
\* Text2d entity.
ScoreTextTracksScore ==
    /\ (phase = "Frame" \/ (phase = "Update" /\ todo = {}) \/ state = "GameOver")
       => text2d[ScoreTextEntity] = <<"Score: ">> \o Decimal(score)
    /\ state = "Playing" => Cardinality(DOMAIN text2d) = 1

\* the entities of a set of (bullet, enemy) pairs
Members(pairs) == {pr[1] : pr \in pairs} \cup {pr[2] : pr \in pairs}

\* C15: an entity leaves the world only at the end of a frame's Update, and
\* only if it is an enemy or a bullet that was in a pair closer than 30 in
\* that frame's check_for_collisions scan; every enemy and bullet of such
\* a pair does leave then. Bullets and enemies off the screen, enemies
\* touching the player, the player and the score text stay.
EntityLifecycle ==
    [][/\ \A e \in DOMAIN transform :
             e \notin DOMAIN transform'
             => /\ phase = "Update" /\ todo = {} /\ phase' = "Frame"
                /\ e \in Enemies \cup Bullets
                /\ hist.scanned
                /\ e \in Members(hist.hits)
       /\ (phase = "Update" /\ phase' = "Frame")
          => \A e \in Members(hist.hits) : e \notin DOMAIN transform'
       /\ {PlayerEntity, ScoreTextEntity} \subseteq DOMAIN transform']_vars

\* a frame has ended in which a bullet and an enemy were shot and left,
\* while the enemy touching the player stayed
ShotGoneOthersStay ==
    /\ phase = "Frame"
    /\ hist.hits # {}
    /\ Members(hist.hits) \cap DOMAIN transform = {}
    /\ (hist.touching \cap Enemies) \ Members(hist.hits) # {}

\* C16: in a world with no entity tagged IsPlayer, handle_input changes no
\* velocity, spawn_bullets queues nothing, check_for_player_collisions
\* leaves NextState alone and the state stays Playing, whatever keys are
\* held and wherever the enemies are; update still moves every entity with
\* a velocity by velocity * dt and damps none, spawn_enemies still queues at
\* most one enemy, check_for_collisions still counts and queues for despawn
\* the pairs closer than 30, update_score_text still writes the Score.
NoPlayerNoOp ==
    [][Players = {}
       => /\ Ran("handle_input") => velocity' = velocity
          /\ Ran("spawn_bullets") => (spawnQ' = spawnQ /\ bulletsSpawned' = bulletsSpawned)
          /\ Ran("check_for_player_collisions") => next' = "Unchanged"
          /\ state' = "Playing" /\ phase' # "OnEnter"
          /\ Ran("update")
             => \A e \in DOMAIN velocity :
                   /\ velocity'[e] = velocity[e]
                   /\ transform'[e][2] = transform[e][2]
                   /\ NearestTo(transform'[e][1] - transform[e][1],
                                velocity[e][1] * dt, Q)
          /\ Ran("spawn_enemies")
             => (spawnQ \subseteq spawnQ' /\ Cardinality(spawnQ' \ spawnQ) <= 1)
          /\ Ran("check_for_collisions")
             => LET near == {pr \in Bullets \X Enemies :
                               Closer(transform[pr[1]], transform[pr[2]], 30)}
                IN  /\ score' = score + Cardinality(near)
                    /\ despawnQ' = despawnQ \cup Members(near)
          /\ Ran("update_score_text")
             => text2d'[ScoreTextEntity] = <<"Score: ">> \o Decimal(score)]_vars

\* the systems of a frame have run without a player, with a direction key
\* held, Space just pressed and an enemy within 50 of the origin
NoPlayerFrameDone ==
    /\ Players = {}
    /\ phase = "Update"
    /\ todo = {}
    /\ "Space" \in justPressed
    /\ pressed \cap DirKeys # {}
    /\ \E e \in Enemies : Closer(transform[e], <<0, 0>>, 50)
    /\ hist.checked
    /\ next = "Unchanged"

\* an enemy bundle as spawn_enemies is said to build it: x from 360 up to
\* 400 (400 itself allowed only if closed), y in [-300, 300), velocity
\* (vx, 0) with -40 < vx <= -10
EnemyAsDrawn(b, closed) ==
    /\ "IsEnemy" \in b.tags
    /\ 360 * Q <= b.pos[1]
    /\ IF closed THEN b.pos[1] <= 400 * Q ELSE b.pos[1] < 400 * Q
    /\ -(300 * Q) <= b.pos[2] /\ b.pos[2] < 300 * Q
    /\ -(40 * Q) < b.vel[1] /\ b.vel[1] <= -(10 * Q)
    /\ b.vel[2] = 0

\* a run of spawn_enemies queues one enemy when its draw over {0, 1, 2} is
\* 0 and nothing otherwise, and the enemy is as drawn; an enemy enters the
\* world where it was drawn; from then on no step raises its x or changes
\* its y or its velocity
EnemySpawning(closed) ==
    /\ Ran("spawn_enemies")
       => /\ spawnQ \subseteq spawnQ'
          /\ Cardinality(spawnQ' \ spawnQ) = IF hist'.draw = "zero" THEN 1 ELSE 0
          /\ \A b \in spawnQ' \ spawnQ : EnemyAsDrawn(b, closed)
    /\ \A e \in isEnemy' \ isEnemy :
          /\ \E b \in spawnQ :
                b.id = e /\ transform'[e] = b.pos /\ velocity'[e] = b.vel
          /\ -(400 * Q) <= transform'[e][1]
          /\ IF closed THEN transform'[e][1] <= 400 * Q ELSE transform'[e][1] < 400 * Q
    /\ \A e \in isEnemy \cap isEnemy' :
          /\ transform'[e][1] <= transform[e][1]
          /\ transform'[e][2] = transform[e][2]
          /\ velocity'[e] = velocity[e]

\* C17 as stated: enemies are drawn with x in [360, 400).
EnemySpawnHalfOpen == [][EnemySpawning(FALSE)]_vars

\* C17, amended: enemies are drawn with x in [360, 400], 400 included; y in
\* [-300, 300), velocity (vx, 0) with -40 < vx <= -10; at most one enemy per
\* run of spawn_enemies, exactly one when the draw over {0, 1, 2} is 0; x
\* never increases and y never changes afterwards.
EnemySpawnClosed == [][EnemySpawning(TRUE)]_vars

\* update has moved an enemy that was drawn on the right edge, x = 400,
\* at the bottom edge and with the least speed
EdgeEnemyMoved ==
    /\ phase = "Update"
    /\ "update" \notin todo
    /\ \E e \in Enemies :
          /\ transform[e][2] = -(300 * Q)
          /\ velocity[e] = <<-(10 * Q), 0>>
          /\ transform[e][1] < 400 * Q
          /\ transform[e][1] > 390 * Q

\* C18: despawns are deferred to the end of the frame's Update: the scan of
\* check_for_collisions leaves the world as it is, and every entity it hit
\* is still in the world for the systems that run after it. So when
\* check_for_player_collisions runs after the scan and an enemy the scan
\* hit is closer than 50 to the player, GameOver is requested although
\* Score already counts that enemy's pair; and when the scan runs after the
\* player check and hits an enemy that check found touching, Score rises
\* and the request stays pending.
ShotEnemyStillEndsGame ==
    [][/\ Ran("check_for_collisions")
          => (isEnemy' = isEnemy /\ mesh2d' = mesh2d /\ transform' = transform)
       /\ phase = "Update" => Members(hist.hits) \subseteq DOMAIN transform
       /\ ( /\ Ran("check_for_player_collisions")
            /\ Single(Players)
            /\ \E pr \in hist.hits :
                  /\ pr[2] \in Enemies
                  /\ Closer(transform[TheOne(Players)], transform[pr[2]], 50) )
          => (next' = "GameOver" /\ score' >= Cardinality(hist.hits) /\ score' >= 1)
       /\ ( /\ Ran("check_for_collisions")
            /\ \E b \in Bullets, e \in hist.touching \cap Enemies :
                  Closer(transform[b], transform[e], 30) )
          => (score' > score /\ next' = "GameOver")]_vars

\* a frame has ended in which the enemy that touched the player was also
\* shot: Score counts it and GameOver is pending
ShotWhileTouching ==
    /\ phase = "Frame"
    /\ \E pr \in hist.hits : pr[2] \in hist.touching
    /\ score >= 1
    /\ next = "GameOver"

\* the magnitude of a velocity component
Magnitude(x) == IF x >= 0 THEN x ELSE -x

\* C19: each component of the player's velocity is below 250 in magnitude
\* at every point, and below 200 at the end of every frame.
PlayerVelocityBounded ==
    \A i \in 1 .. 2 :
       /\ Magnitude(velocity[PlayerEntity][i]) < 250 * Q
       /\ (phase = "Frame" \/ (phase = "Update" /\ todo = {}))
          => Magnitude(velocity[PlayerEntity][i]) < 200 * Q

\* the enemies and the bullets despawned so far: those spawned that are
\* neither in the world nor waiting in the spawn queue
EnemiesDespawned ==
    enemiesSpawned - Cardinality(isEnemy)
                   - Cardinality({b \in spawnQ : "IsEnemy" \in b.tags})
BulletsDespawned ==
    bulletsSpawned - Cardinality(mesh2d)
                   - Cardinality({b \in spawnQ : "Mesh2d" \in b.tags})

\* C20: Score is at least the number of enemies despawned so far and at
\* least the number of bullets despawned so far; between frames, Score
\* equals both numbers as long as no scan has found an entity in more than
\* one pair closer than 30.
ScoreBoundsKills ==
    /\ score >= EnemiesDespawned
    /\ score >= BulletsDespawned
    /\ (phase = "Frame" /\ ~hist.multi)
       => (score = EnemiesDespawned /\ score = BulletsDespawned)

\* one bullet has shot one enemy, with another enemy left in the world
OneKillOnePoint ==
    /\ phase = "Frame"
    /\ ~hist.multi
    /\ score = 1
    /\ EnemiesDespawned = 1
    /\ BulletsDespawned = 1
    /\ isEnemy # {}

====
